---------------------------- MODULE Spec2Model ----------------------------
(***************************************************************************)
(* Rock-paper-scissors arena simulator (src/rps_simulator.cpp).            *)
(*                                                                         *)
(* State: the RPSSimulator object (objects, boxWidth, boxHeight,           *)
(* generation), the loop variable and position of main(), and two          *)
(* observation variables that record what the last update() call did: in  *)
(* its first loop (moved: each object after obj.update() and after         *)
(* obj.handleBoundaries) and in its collision loops (trace: the calls of   *)
(* resolveCollision, with both objects before and after each call).        *)
(*                                                                         *)
(* Numbers: the program computes in float.  The model computes in fixed    *)
(* point: every coordinate, velocity and length is an integer number of    *)
(* 1/Unit.  Addition, negation, comparison, min and max are exact on such  *)
(* values; sqrt and the division dx / distance are rounded to the grid     *)
(* (see Sqrt and Quot), where the program rounds to the nearest float.     *)
(***************************************************************************)
EXTENDS Integers, Sequences, FiniteSets

VARIABLES objects, boxWidth, boxHeight, generation, gen, pc, moved, trace

vars == <<objects, boxWidth, boxHeight, generation, gen, pc, moved, trace>>

---------------------------------------------------------------------------
(* Number representation *)

\* Fixed-point resolution: one length unit of the program is Unit model units.
Unit == 10

Abs(a) == IF a < 0 THEN -a ELSE a

Min(a, b) == IF b < a THEN b ELSE a

Max(a, b) == IF a < b THEN b ELSE a

\* floor of the square root of n, by bisection on lo..hi, given
\* lo * lo <= n < hi * hi
RECURSIVE SqrtBetween(_, _, _)
SqrtBetween(n, lo, hi) ==
    IF hi - lo <= 1 THEN lo
    ELSE CHOOSE r \in {IF mid * mid <= n THEN SqrtBetween(n, mid, hi)
                                          ELSE SqrtBetween(n, lo, mid) :
                          mid \in {(lo + hi) \div 2}} : TRUE

\* std::sqrt of a product of two fixed-point values (n is in 1/Unit^2, below
\* 2048^2), result in 1/Unit, rounded down
Sqrt(n) == CHOOSE r \in {SqrtBetween(v, 0, 2048) : v \in {n}} : TRUE

\* a / b for fixed-point a and b > 0, result in 1/Unit, rounded to the
\* nearest grid value, halves away from zero (symmetric in the sign of a)
Quot(a, b) ==
    LET q == (2 * Abs(a) * Unit + b) \div (2 * b)
    IN IF a < 0 THEN -q ELSE q

\* a * b for fixed-point a, b, result in 1/Unit
Prod(a, b) ==
    LET p == (2 * Abs(a) * Abs(b) + Unit) \div (2 * Unit)
    IN IF (a < 0) = (b < 0) THEN p ELSE -p

---------------------------------------------------------------------------
(* ObjectType and GameRules *)

ObjectType == {"ROCK", "PAPER", "SCISSORS"}

\* determineWinner without its first line, the test for equal types
determineWinnerNoTie(type1, type2) ==
    CASE type1 = "ROCK" ->
            IF type2 = "SCISSORS" THEN "ROCK" ELSE "PAPER"
      [] type1 = "PAPER" ->
            IF type2 = "ROCK" THEN "PAPER" ELSE "SCISSORS"
      [] type1 = "SCISSORS" ->
            IF type2 = "PAPER" THEN "SCISSORS" ELSE "ROCK"
      [] OTHER -> type1

\* determineWinner with the two results of the PAPER case exchanged
determineWinnerSwapped(type1, type2) ==
    IF type1 = type2 THEN type1
    ELSE CASE type1 = "ROCK" ->
                IF type2 = "SCISSORS" THEN "ROCK" ELSE "PAPER"
           [] type1 = "PAPER" ->
                IF type2 = "ROCK" THEN "SCISSORS" ELSE "PAPER"
           [] type1 = "SCISSORS" ->
                IF type2 = "PAPER" THEN "SCISSORS" ELSE "ROCK"
           [] OTHER -> type1

determineWinner(type1, type2) ==
    IF type1 = type2 THEN type1
    ELSE CASE type1 = "ROCK" ->
                IF type2 = "SCISSORS" THEN "ROCK" ELSE "PAPER"
           [] type1 = "PAPER" ->
                IF type2 = "ROCK" THEN "PAPER" ELSE "SCISSORS"
           [] type1 = "SCISSORS" ->
                IF type2 = "PAPER" THEN "SCISSORS" ELSE "ROCK"
           [] OTHER -> type1

---------------------------------------------------------------------------
(* GameObject *)

\* radius(5.0f)
Radius == 5

\* float separationForce = 2.0f
SeparationForce == 2

\* GameObject::GameObject with the two velocity draws given
GameObject(t, startX, startY, velX, velY) ==
    [type |-> t, x |-> startX, y |-> startY, vx |-> velX, vy |-> velY,
     radius |-> Radius * Unit]

\* GameObject::update
Move(o) == [o EXCEPT !.x = o.x + o.vx, !.y = o.y + o.vy]

\* collidesWith with <= for <: touching circles count as colliding
collidesWithTouching(o, other) ==
    LET dx == o.x - other.x
        dy == o.y - other.y
        distance == Sqrt(dx * dx + dy * dy)
    IN distance <= o.radius + other.radius

\* GameObject::collidesWith
collidesWith(o, other) ==
    LET dx == o.x - other.x
        dy == o.y - other.y
        distance == Sqrt(dx * dx + dy * dy)
    IN distance < o.radius + other.radius

\* handleBoundaries that turns the velocity but does not clamp the position
handleBoundariesNoClamp(o, width, height) ==
    LET o1 == IF o.x - o.radius <= 0 \/ o.x + o.radius >= width
              THEN [o EXCEPT !.vx = -o.vx] ELSE o
    IN IF o1.y - o1.radius <= 0 \/ o1.y + o1.radius >= height
       THEN [o1 EXCEPT !.vy = -o1.vy] ELSE o1

\* handleBoundaries with < and > for <= and >=: a circle that only touches
\* a wall is left alone
handleBoundariesStrict(o, width, height) ==
    LET o1 == IF o.x - o.radius < 0 \/ o.x + o.radius > width
              THEN [o EXCEPT !.vx = -o.vx,
                             !.x = Max(o.radius, Min(width - o.radius, o.x))]
              ELSE o
    IN IF o1.y - o1.radius < 0 \/ o1.y + o1.radius > height
       THEN [o1 EXCEPT !.vy = -o1.vy,
                       !.y = Max(o1.radius, Min(height - o1.radius, o1.y))]
       ELSE o1

\* GameObject::handleBoundaries, the x test and then the y test
handleBoundaries(o, width, height) ==
    LET o1 == IF o.x - o.radius <= 0 \/ o.x + o.radius >= width
              THEN [o EXCEPT !.vx = -o.vx,
                             !.x = Max(o.radius, Min(width - o.radius, o.x))]
              ELSE o
    IN IF o1.y - o1.radius <= 0 \/ o1.y + o1.radius >= height
       THEN [o1 EXCEPT !.vy = -o1.vy,
                       !.y = Max(o1.radius, Min(height - o1.radius, o1.y))]
       ELSE o1

\* resolveCollision that also lets the two objects exchange velocities
resolveCollisionBounce(obj1, obj2) ==
    LET winner == determineWinner(obj1.type, obj2.type)
        dx == obj1.x - obj2.x
        dy == obj1.y - obj2.y
        distance == Sqrt(dx * dx + dy * dy)
        sx == IF distance > 0
              THEN Prod(Quot(dx, distance), SeparationForce * Unit) ELSE 0
        sy == IF distance > 0
              THEN Prod(Quot(dy, distance), SeparationForce * Unit) ELSE 0
    IN << [obj1 EXCEPT !.type = winner, !.x = obj1.x + sx, !.y = obj1.y + sy,
                       !.vx = obj2.vx, !.vy = obj2.vy],
          [obj2 EXCEPT !.type = winner, !.x = obj2.x - sx, !.y = obj2.y - sy,
                       !.vx = obj1.vx, !.vy = obj1.vy] >>

\* GameRules::resolveCollision: the pair <<obj1, obj2>> after the call
resolveCollision(obj1, obj2) ==
    LET winner == determineWinner(obj1.type, obj2.type)
        dx == obj1.x - obj2.x
        dy == obj1.y - obj2.y
        distance == Sqrt(dx * dx + dy * dy)
        sx == IF distance > 0
              THEN Prod(Quot(dx, distance), SeparationForce * Unit) ELSE 0
        sy == IF distance > 0
              THEN Prod(Quot(dy, distance), SeparationForce * Unit) ELSE 0
    IN << [obj1 EXCEPT !.type = winner, !.x = obj1.x + sx, !.y = obj1.y + sy],
          [obj2 EXCEPT !.type = winner, !.x = obj2.x - sx, !.y = obj2.y - sy] >>

---------------------------------------------------------------------------
(* RPSSimulator *)

\* for (int i = 0; i < 5; i++): objects of each type
PerType == 5

\* xDist(10, boxWidth - 10), yDist(10, boxHeight - 10)
Margin == 10

\* velDist(-2.0f, 2.0f)
MaxVel == 2

NumObjects == 3 * PerType

\* the type of the k-th constructed object (k = 1 ..): ROCK, PAPER, SCISSORS
\* in each round of the loop of initializeObjects
TypeOf(k) ==
    CASE (k - 1) % 3 = 0 -> "ROCK"
      [] (k - 1) % 3 = 1 -> "PAPER"
      [] OTHER -> "SCISSORS"

\* first loop of RPSSimulator::update: for each object, its value after
\* obj.update() (pre) and after obj.handleBoundaries(...) (post)
MotionPhase(objs, width, height) ==
    [k \in DOMAIN objs |->
        [pre  |-> Move(objs[k]),
         post |-> handleBoundaries(Move(objs[k]), width, height)]]

\* the objects as the first loop leaves them
Posts(m) == [k \in DOMAIN m |-> m[k].post]

\* One call of resolveCollision inside the pair loop: the two objects are
\* updated in place and the call is recorded.
ResolvePair(st, i, j) ==
    LET r == resolveCollision(st.objs[i], st.objs[j])
    IN [objs |-> [st.objs EXCEPT ![i] = r[1], ![j] = r[2]],
        log  |-> Append(st.log,
                        [i |-> i, j |-> j,
                         before1 |-> st.objs[i], before2 |-> st.objs[j],
                         after1 |-> r[1], after2 |-> r[2]])]

\* inner loop of the collision check of RPSSimulator::update: object i
\* against objects j, j + 1, ...  (the binder s \in {..} fixes the value of
\* the objects after this iteration before the next one reads them)
RECURSIVE InnerLoop(_, _, _)
InnerLoop(st, i, j) ==
    IF j > Len(st.objs) THEN st
    ELSE CHOOSE r \in {InnerLoop(s, i, j + 1) :
                          s \in {IF collidesWith(st.objs[i], st.objs[j])
                                 THEN ResolvePair(st, i, j) ELSE st}} : TRUE

\* outer loop of the collision check of RPSSimulator::update, from i on
RECURSIVE OuterLoop(_, _)
OuterLoop(st, i) ==
    IF i > Len(st.objs) THEN st
    ELSE CHOOSE r \in {OuterLoop(s, i + 1) :
                          s \in {InnerLoop(st, i, i + 1)}} : TRUE

\* Collision check that tests and resolves every pair on the objects as the
\* motion phase left them (snap) and then applies each result to the objects.
SnapshotPair(snap, st, i, j) ==
    LET r == resolveCollision(snap[i], snap[j])
        a == [st.objs[i] EXCEPT !.type = r[1].type,
                                !.x = @ + r[1].x - snap[i].x,
                                !.y = @ + r[1].y - snap[i].y]
        b == [st.objs[j] EXCEPT !.type = r[2].type,
                                !.x = @ + r[2].x - snap[j].x,
                                !.y = @ + r[2].y - snap[j].y]
    IN [objs |-> [st.objs EXCEPT ![i] = a, ![j] = b],
        log  |-> Append(st.log,
                        [i |-> i, j |-> j,
                         before1 |-> snap[i], before2 |-> snap[j],
                         after1 |-> a, after2 |-> b])]

RECURSIVE SnapshotInner(_, _, _, _)
SnapshotInner(snap, st, i, j) ==
    IF j > Len(snap) THEN st
    ELSE CHOOSE r \in {SnapshotInner(snap, s, i, j + 1) :
                          s \in {IF collidesWith(snap[i], snap[j])
                                 THEN SnapshotPair(snap, st, i, j) ELSE st}} : TRUE

RECURSIVE SnapshotOuter(_, _, _)
SnapshotOuter(snap, st, i) ==
    IF i > Len(snap) THEN st
    ELSE CHOOSE r \in {SnapshotOuter(snap, s, i + 1) :
                          s \in {SnapshotInner(snap, st, i, i + 1)}} : TRUE

CollisionPhaseSnapshot(objs) ==
    CHOOSE r \in {SnapshotOuter(snap, [objs |-> snap, log |-> <<>>], 1) :
                     snap \in {objs}} : TRUE

\* second loop nest of RPSSimulator::update
CollisionPhase(objs) == OuterLoop([objs |-> objs, log |-> <<>>], 1)

\* RPSSimulator::getTypeCounts
RECURSIVE CountFrom(_, _, _)
CountFrom(objs, k, c) ==
    IF k > Len(objs) THEN c
    ELSE CountFrom(objs, k + 1,
            CASE objs[k].type = "ROCK" -> [c EXCEPT !.rocks = @ + 1]
              [] objs[k].type = "PAPER" -> [c EXCEPT !.papers = @ + 1]
              [] objs[k].type = "SCISSORS" -> [c EXCEPT !.scissors = @ + 1]
              [] OTHER -> c)

\* getTypeCounts with the break statements missing: a case falls through
\* into the ones below it
RECURSIVE CountFallThrough(_, _, _)
CountFallThrough(objs, k, c) ==
    IF k > Len(objs) THEN c
    ELSE CountFallThrough(objs, k + 1,
            CASE objs[k].type = "ROCK" ->
                    [c EXCEPT !.rocks = @ + 1, !.papers = @ + 1, !.scissors = @ + 1]
              [] objs[k].type = "PAPER" ->
                    [c EXCEPT !.papers = @ + 1, !.scissors = @ + 1]
              [] objs[k].type = "SCISSORS" -> [c EXCEPT !.scissors = @ + 1]
              [] OTHER -> c)

getTypeCountsNoBreak(objs) ==
    CountFallThrough(objs, 1, [rocks |-> 0, papers |-> 0, scissors |-> 0])

getTypeCounts(objs) ==
    CountFrom(objs, 1, [rocks |-> 0, papers |-> 0, scissors |-> 0])

B2I(b) == IF b THEN 1 ELSE 0

\* RPSSimulator::isGameOver
isGameOver(objs) ==
    LET c == getTypeCounts(objs)
        nonZeroCount == B2I(c.rocks > 0) + B2I(c.papers > 0) + B2I(c.scissors > 0)
    IN nonZeroCount <= 1

\* RPSSimulator::getWinner
getWinner(objs) ==
    LET c == getTypeCounts(objs)
    IN IF c.rocks > 0 THEN "ROCK"
       ELSE IF c.papers > 0 THEN "PAPER"
       ELSE IF c.scissors > 0 THEN "SCISSORS"
       ELSE "ROCK"

---------------------------------------------------------------------------
(* Construction *)

\* Number of sampled placements the model enumerates.
MaxSeed == 10

\* Stand-in for the two generators (rng of RPSSimulator, gen of GameObject):
\* the n-th raw draw of the run with the given seed.  The Mersenne Twister
\* is not modelled; Draw only enumerates values the distributions can yield.
Mix(x) == (x * x * 7 + x * 75 + 74) % 8191

Draw(seed, n) == Mix(Mix(Mix(seed * 64 + n)))

\* std::uniform_real_distribution<float>(lo, hi) applied to raw draw h, for
\* lo <= hi: a value of [lo, hi), and lo when the interval is empty.
Uniform(lo, hi, h) ==
    IF lo < hi THEN lo + (h % (hi - lo)) ELSE lo

\* RPSSimulator::initializeObjects with the draws of one seed
Sampled(seed, width, height) ==
    [k \in 1..NumObjects |->
        GameObject(TypeOf(k),
                   Uniform(Margin * Unit, width - Margin * Unit, Draw(seed, 4 * k - 3)),
                   Uniform(Margin * Unit, height - Margin * Unit, Draw(seed, 4 * k - 2)),
                   Uniform(-MaxVel * Unit, MaxVel * Unit, Draw(seed, 4 * k - 1)),
                   Uniform(-MaxVel * Unit, MaxVel * Unit, Draw(seed, 4 * k)))]

\* initializeObjects when every position draw is the box centre and every
\* velocity draw is 0: all objects start on one point.
Pile(width, height) ==
    [k \in 1..NumObjects |->
        GameObject(TypeOf(k), width \div 2, height \div 2, 0, 0)]

\* initializeObjects when the first ROCK is drawn at (40, 50) with velocity
\* (+1, 0), the first SCISSORS at (60, 50) with velocity (-1, 0), and every
\* other object is drawn at rest on a 15-spaced grid off the line y = 50.
HeadOn ==
    [k \in 1..NumObjects |->
        IF k = 1 THEN GameObject("ROCK", 40 * Unit, 50 * Unit, Unit, 0)
        ELSE IF k = 3 THEN GameObject("SCISSORS", 60 * Unit, 50 * Unit, -Unit, 0)
        ELSE GameObject(TypeOf(k),
                        (15 + 15 * (k % 5)) * Unit,
                        (IF k <= 5 THEN 10 ELSE IF k <= 10 THEN 30 ELSE 80) * Unit,
                        0, 0)]

\* whether a placement is one the position distributions can yield
InRange(objs, width, height) ==
    \A k \in DOMAIN objs :
        /\ Margin * Unit <= objs[k].x /\ objs[k].x <= width - Margin * Unit
        /\ Margin * Unit <= objs[k].y /\ objs[k].y <= height - Margin * Unit

\* the placements initializeObjects is modelled to produce
Placements(width, height) ==
    {Sampled(seed, width, height) : seed \in 1..MaxSeed}
        \cup {o \in {Pile(width, height), HeadOn} : InRange(o, width, height)}

\* RPSSimulator::RPSSimulator: the fields after construction
Construct(width, height, objs) ==
    /\ boxWidth = width
    /\ boxHeight = height
    /\ generation = 0
    /\ objects = objs
    /\ moved = [k \in DOMAIN objs |-> [pre |-> objs[k], post |-> objs[k]]]
    /\ trace = <<>>

\* RPSSimulator::update
Update ==
    \E m \in {MotionPhase(objects, boxWidth, boxHeight)} :
        \E st \in {CollisionPhase(Posts(m))} :
            /\ objects' = st.objs
            /\ moved' = m
            /\ trace' = st.log
            /\ generation' = generation + 1
            /\ UNCHANGED <<boxWidth, boxHeight>>

---------------------------------------------------------------------------
(* main *)

\* RPSSimulator simulator(100.0f, 100.0f)
BoxSize == 100

\* int maxGenerations = 1000
MaxGenerations == 1000

Init ==
    /\ pc = "loop"
    /\ gen = 0
    /\ \E objs \in Placements(BoxSize * Unit, BoxSize * Unit) :
           Construct(BoxSize * Unit, BoxSize * Unit, objs)

\* the loop of main without the !simulator.isGameOver() test
LoopStepNoOverTest ==
    /\ pc = "loop"
    /\ gen < MaxGenerations
    /\ Update
    /\ gen' = gen + 1
    /\ pc' = pc

\* one iteration of the for loop of main; displayState and the sleep only
\* write to the console
LoopStep ==
    /\ pc = "loop"
    /\ gen < MaxGenerations /\ ~isGameOver(objects)
    /\ Update
    /\ gen' = gen + 1
    /\ pc' = pc

\* the loop condition fails: main reports the result and returns
LoopExit ==
    /\ pc = "loop"
    /\ ~(gen < MaxGenerations /\ ~isGameOver(objects))
    /\ pc' = "done"
    /\ UNCHANGED <<objects, boxWidth, boxHeight, generation, gen, moved, trace>>

Next == LoopStep \/ LoopExit

Spec == Init /\ [][Next]_vars

FairSpec == Spec /\ WF_vars(Next)

---------------------------------------------------------------------------
(* The RPSSimulator class used by an arbitrary caller: any dimensions at   *)
(* construction, update() called in any state.                             *)

\* Number of update() calls the arbitrary caller makes at most.
MaxTicks == 5

\* box sizes tried: 100 and 30 are at least 2 * radius + 2 * margin, 25 and
\* 20 are smaller; each leaves the position distributions a range lo <= hi
ArenaSizes == {100, 30, 25, 20}

ArenaInit ==
    /\ gen = 0
    /\ pc = "arena"
    /\ \E w \in ArenaSizes, h \in ArenaSizes :
           \E objs \in Placements(w * Unit, h * Unit) :
               Construct(w * Unit, h * Unit, objs)

ArenaUpdate ==
    /\ pc = "arena"
    /\ generation < MaxTicks
    /\ Update
    /\ UNCHANGED <<gen, pc>>

ArenaNext == ArenaUpdate

ArenaSpec == ArenaInit /\ [][ArenaNext]_vars

---------------------------------------------------------------------------
(* Properties *)

\* the object lies fully inside the box: radius <= x <= width - radius and
\* radius <= y <= height - radius
Inside(o) ==
    /\ o.radius <= o.x /\ o.x <= boxWidth - o.radius
    /\ o.radius <= o.y /\ o.y <= boxHeight - o.radius

\* object k took part in a resolveCollision call of the last update()
Resolved(k) == \E n \in DOMAIN trace : trace[n].i = k \/ trace[n].j = k

KindsOf(objs) == {objs[k].type : k \in DOMAIN objs}

\* C1 as claimed: after any completed tick every agent satisfies
\* radius <= x <= width - radius and radius <= y <= height - radius.
C1_InsideAfterTick ==
    generation > 0 => \A k \in DOMAIN objects : Inside(objects[k])

\* C1 as amended: after any completed tick every agent that took part in no
\* collision resolution of that tick satisfies radius <= x <= width - radius
\* and radius <= y <= height - radius (an agent moved by a separation nudge
\* may lie outside until the next tick's boundary handling).
C1_InsideUnlessResolved ==
    generation > 0 =>
        \A k \in DOMAIN objects : ~Resolved(k) => Inside(objects[k])

\* C1 witness: a tick has completed in which one agent, in no collision, was
\* put back on a wall, and another agent was nudged out of the box.
C1_Witness ==
    /\ generation > 0
    /\ \E k \in DOMAIN objects :
          /\ ~Resolved(k)
          /\ moved[k].pre # moved[k].post
          /\ Inside(objects[k])
    /\ \E k \in DOMAIN objects : Resolved(k) /\ ~Inside(objects[k])

\* C2: isGameOver is absorbing under update(): a tick taken in a state where
\* isGameOver() holds ends in a state where it holds, and no tick introduces
\* a kind that was absent before it.
C2_GameOverAbsorbing ==
    [][/\ isGameOver(objects) => isGameOver(objects')
       /\ KindsOf(objects') \subseteq KindsOf(objects)]_vars

\* C2 witness: in a 100 x 100 arena a tick was run on a single-kind
\* population, resolved at least one collision, and the game is still over.
C2_Witness ==
    /\ boxWidth = BoxSize * Unit /\ boxHeight = BoxSize * Unit
    /\ generation > 1
    /\ isGameOver(Posts(moved))
    /\ trace # <<>>
    /\ isGameOver(objects)

\* C3: the arena holds exactly 15 agents after initialization and after any
\* number of ticks, and the three counts of getTypeCounts sum to 15.
C3_CountConserved ==
    LET c == getTypeCounts(objects)
    IN /\ Len(objects) = 15
       /\ c.rocks + c.papers + c.scissors = 15

\* C3 witness: after a tick with conversions the counts are no longer
\* 5 / 5 / 5, two kinds are left, and the counts still sum to 15.
C3_Witness ==
    LET c == getTypeCounts(objects)
    IN /\ generation > 0
       /\ c.rocks > 5 /\ c.papers = 0 /\ c.scissors > 0
       /\ c.rocks + c.papers + c.scissors = 15

\* the cyclic dominance table: Rock beats Scissors, Scissors beats Paper,
\* Paper beats Rock
Beats(a, b) ==
    <<a, b>> \in {<<"ROCK", "SCISSORS">>, <<"SCISSORS", "PAPER">>,
                 <<"PAPER", "ROCK">>}

\* C4: determineWinner agrees with the dominance table on all 9 ordered
\* pairs (equal kinds give that kind, otherwise the one that beats the
\* other), is symmetric, every kind beats exactly one other kind and loses
\* to exactly one other kind; and every resolved collision gave both objects
\* the table's winner of the kinds they had.
C4_DominanceTable ==
    /\ \A a \in ObjectType, b \in ObjectType :
          /\ (a = b) => determineWinner(a, b) = a
          /\ Beats(a, b) => determineWinner(a, b) = a /\ determineWinner(b, a) = a
          /\ determineWinner(a, b) = determineWinner(b, a)
    /\ \A a \in ObjectType :
          /\ Cardinality({b \in ObjectType \ {a} : determineWinner(a, b) = a}) = 1
          /\ Cardinality({b \in ObjectType \ {a} : determineWinner(a, b) = b}) = 1
    /\ \A n \in DOMAIN trace :
          LET t1 == trace[n].before1.type
              t2 == trace[n].before2.type
              w  == IF t1 = t2 \/ Beats(t1, t2) THEN t1 ELSE t2
          IN trace[n].after1.type = w /\ trace[n].after2.type = w

\* C4 witness: the last tick resolved collisions between objects of
\* different kinds in which the first won, and in which the second won.
C4_Witness ==
    /\ \E n \in DOMAIN trace :
          /\ Beats(trace[n].before1.type, trace[n].before2.type)
          /\ trace[n].after2.type = trace[n].before1.type
    /\ \E n \in DOMAIN trace :
          /\ Beats(trace[n].before2.type, trace[n].before1.type)
          /\ trace[n].after1.type = trace[n].before2.type

\* C5: the driver loop terminates; it calls update() at most 1000 times
\* (generation counts the calls from 0, one per call, and equals the loop
\* variable), never in a state where isGameOver() holds, and once it has
\* left the loop isGameOver() holds or generation is 1000.
C5_DriverTerminates ==
    /\ [](gen = generation /\ generation <= MaxGenerations)
    /\ [][generation' # generation =>
             /\ ~isGameOver(objects)
             /\ generation' = generation + 1]_vars
    /\ [](pc = "done" => isGameOver(objects) \/ generation = MaxGenerations)
    /\ <>(pc = "done")

\* C5 witness: the loop was left after 1000 update() calls with more than
\* one kind still present.
C5_Witness ==
    pc = "done" /\ generation = MaxGenerations /\ ~isGameOver(objects)

\* C6 as claimed: an arena constructed with a width or height that is
\* non-positive or below 2 * radius + 2 * margin holds no agents and is
\* never ticked.
C6_IllFormedRejected ==
    (\/ boxWidth < (2 * Radius + 2 * Margin) * Unit
     \/ boxHeight < (2 * Radius + 2 * Margin) * Unit)
        => objects = <<>> /\ generation = 0

\* the two objects' circles overlap: centre distance below the sum of radii
Overlap(a, b) ==
    (a.x - b.x) * (a.x - b.x) + (a.y - b.y) * (a.y - b.y)
        < (a.radius + b.radius) * (a.radius + b.radius)

\* pair p comes before pair q in lexicographic index order
PairBefore(p, q) == p.i < q.i \/ (p.i = q.i /\ p.j < q.j)

\* object k as the n-th resolveCollision call of the last tick found it: as
\* the latest earlier call on k left it, or else as the motion phase left it
Current(n, k) ==
    LET prior == {m \in 1..(n - 1) : trace[m].i = k \/ trace[m].j = k}
    IN IF prior = {} THEN moved[k].post
       ELSE LET m == CHOOSE x \in prior : \A y \in prior : y <= x
            IN IF trace[m].i = k THEN trace[m].after1 ELSE trace[m].after2

\* C7: the collision phase starts from the objects as the motion phase left
\* all of them and resolves pairs (i, j), i < j, in lexicographic order in
\* place: every overlap test and every resolution reads both objects as the
\* earlier resolutions of the same tick left them, a pair is resolved exactly
\* when it overlaps then, and the tick's result is what the last resolution
\* of each object left.
C7_InPlaceOrder ==
    generation > 0 =>
        /\ \A n \in DOMAIN trace :
              /\ 1 <= trace[n].i /\ trace[n].i < trace[n].j
              /\ trace[n].j <= Len(objects)
              /\ n > 1 => PairBefore(trace[n - 1], trace[n])
              /\ trace[n].before1 = Current(n, trace[n].i)
              /\ trace[n].before2 = Current(n, trace[n].j)
              /\ Overlap(trace[n].before1, trace[n].before2)
        /\ \A k \in DOMAIN objects : objects[k] = Current(Len(trace) + 1, k)
        /\ \A i \in DOMAIN objects, j \in DOMAIN objects :
              (i < j /\ \A n \in DOMAIN trace : trace[n].i # i \/ trace[n].j # j)
                  => LET n == 1 + Cardinality({m \in DOMAIN trace :
                                    PairBefore(trace[m], [i |-> i, j |-> j])})
                     IN ~Overlap(Current(n, i), Current(n, j))

\* C7 witness: in the last tick some object entered a resolution with a kind
\* an earlier resolution of that tick had given it, changed kind again, and
\* the winner differs from the winner of the two kinds the motion phase left.
C7_Witness ==
    /\ generation > 0
    /\ \E n \in DOMAIN trace :
          LET i == trace[n].i
              j == trace[n].j
          IN /\ trace[n].before1.type # moved[i].post.type
             /\ trace[n].after1.type # trace[n].before1.type
             /\ trace[n].after1.type #
                    determineWinner(moved[i].post.type, moved[j].post.type)

\* x clamped into [lo, hi]
Clamped(x, lo, hi) == IF x < lo THEN lo ELSE IF x > hi THEN hi ELSE x

\* C8: handleBoundaries, on each axis: if the circle touches or crosses a
\* wall before the call, the velocity component is negated once and the
\* coordinate is clamped into [radius, size - radius]; otherwise both are
\* unchanged; it changes nothing else; so after the motion phase every agent
\* lies inside the box.
C8_Boundaries ==
    \A k \in DOMAIN moved :
        LET p == moved[k].pre
            q == moved[k].post
            r == p.radius
            hitX == p.x - r <= 0 \/ p.x + r >= boxWidth
            hitY == p.y - r <= 0 \/ p.y + r >= boxHeight
        IN /\ q.vx = IF hitX THEN -p.vx ELSE p.vx
           /\ q.x = IF hitX THEN Clamped(p.x, r, boxWidth - r) ELSE p.x
           /\ q.vy = IF hitY THEN -p.vy ELSE p.vy
           /\ q.y = IF hitY THEN Clamped(p.y, r, boxHeight - r) ELSE p.y
           /\ q.type = p.type /\ q.radius = r
           /\ Inside(q)

\* C8 witness: an agent that a nudge had pushed out of the box (it is
\* outside while moving inwards) was put back on the wall with its velocity
\* negated, and another agent touched no wall and kept position and velocity.
C8_Witness ==
    /\ generation > 0
    /\ \E k \in DOMAIN moved :
          /\ moved[k].pre.x < moved[k].pre.radius /\ moved[k].pre.vx > 0
          /\ moved[k].post.x = moved[k].pre.radius
          /\ moved[k].post.vx = -moved[k].pre.vx
    /\ \E k \in DOMAIN moved : moved[k].post = moved[k].pre

\* C9: a collision resolution leaves vx, vy and radius of its two objects
\* unchanged and no other object is changed by the collision phase; over a
\* tick |vx|, |vy| and radius of every agent are unchanged; and a tick that
\* resolves no collision changes no agent's kind and leaves every agent
\* where the motion phase put it.
C9_VelocityFrame ==
    [][generation' # generation =>
        /\ \A n \in DOMAIN trace' :
              /\ trace'[n].after1.vx = trace'[n].before1.vx
              /\ trace'[n].after1.vy = trace'[n].before1.vy
              /\ trace'[n].after1.radius = trace'[n].before1.radius
              /\ trace'[n].after2.vx = trace'[n].before2.vx
              /\ trace'[n].after2.vy = trace'[n].before2.vy
              /\ trace'[n].after2.radius = trace'[n].before2.radius
        /\ \A k \in DOMAIN objects :
              /\ objects'[k].vx = moved'[k].post.vx
              /\ objects'[k].vy = moved'[k].post.vy
              /\ (\A n \in DOMAIN trace' : trace'[n].i # k /\ trace'[n].j # k)
                    => objects'[k] = moved'[k].post
              /\ Abs(objects'[k].vx) = Abs(objects[k].vx)
              /\ Abs(objects'[k].vy) = Abs(objects[k].vy)
              /\ objects'[k].radius = objects[k].radius
              /\ trace' = <<>> => objects'[k].type = objects[k].type
        /\ DOMAIN objects' = DOMAIN objects
       ]_vars

\* C9 witness: the last tick reflected an agent off a wall and resolved a
\* collision that moved an agent.
C9_Witness ==
    /\ generation > 0
    /\ \E k \in DOMAIN moved : moved[k].post.vx = -moved[k].pre.vx
                               /\ moved[k].pre.vx # 0
    /\ \E k \in DOMAIN objects : Resolved(k) /\ objects[k].x # moved[k].post.x

\* the head-on placement after g ticks without contact
HeadOnAfter(g) ==
    [HeadOn EXCEPT ![1].x = (40 + g) * Unit, ![3].x = (60 - g) * Unit]

\* C10: from A = (Rock, 40, 50, +1, 0) and B = (Scissors, 60, 50, -1, 0) in
\* the 100 x 100 arena, each of the first 5 ticks leaves the kinds Rock and
\* Scissors (after tick 5 the centres are 10 apart, which is no overlap);
\* tick 6 brings the centres to 46 and 54, makes both Rock and moves A by 2
\* to 44 and B by 2 to 56.
C10_HeadOn ==
    [][/\ \A g \in 0..4 :
            (generation = g /\ objects = HeadOnAfter(g) /\ generation' = g + 1)
                => objects' = HeadOnAfter(g + 1) /\ trace' = <<>>
       /\ (generation = 5 /\ objects = HeadOnAfter(5) /\ generation' = 6)
            => /\ moved'[1].post.x = 46 * Unit /\ moved'[3].post.x = 54 * Unit
               /\ Len(trace') = 1 /\ trace'[1].i = 1 /\ trace'[1].j = 3
               /\ objects' = [HeadOnAfter(5) EXCEPT ![1].x = 44 * Unit,
                                                    ![3].x = 56 * Unit,
                                                    ![3].type = "ROCK"]
      ]_vars

\* C10 witness: tick 6 of the head-on run is done: both are Rock, A is at
\* 44 and B at 56, after a motion phase that had put them at 46 and 54.
C10_Witness ==
    /\ generation = 6
    /\ boxWidth = 100 * Unit /\ boxHeight = 100 * Unit
    /\ moved[1].post.x = 46 * Unit /\ moved[3].post.x = 54 * Unit
    /\ objects = [HeadOn EXCEPT ![1].x = 44 * Unit, ![3].x = 56 * Unit,
                                ![3].type = "ROCK"]

=============================================================================
